---- MODULE Spec2Model ----
(***************************************************************************)
(* The DRY and SOLID example programs of software-development-principles:  *)
(* the user managers (WET, DRY, configurable, template), the static        *)
(* UserLogger and UserManagerFactory, and the NotificationService.         *)
(*                                                                         *)
(* A JavaScript string is a sequence of one-character strings; a literal   *)
(* piece of a template string is kept as one token of the sequence.        *)
(* `undefined` is the one-token sequence Undefined.  An object literal is  *)
(* the sequence of its <<key, value>> pairs in insertion order.            *)
(***************************************************************************)
EXTENDS Integers, Sequences, FiniteSets, TLC

VARIABLES
    phase,      \* "top": the script is between two statements; "called": a call has completed
    isEnabled,  \* UserLogger.isEnabled (TypeScript example)
    heap,       \* the ConfigurableUserManager objects constructed so far
    instances,  \* UserManagerFactory.instances: sequence of <<key, index into heap>>
    last,       \* <<>> or <<record of the call that has just completed>>
    inp,        \* the inputs of the single-call specification (drawn by its Init)
    senders,    \* NotificationService.senders
    sent,       \* the send calls made so far: <<sender, message>>
    made,       \* the createManager calls completed so far: <<type, customConfig, manager>>
    validators  \* the GenericValidator objects: [errorMessage, rules]

vars == <<phase, isEnabled, heap, instances, last, inp, senders, sent, made,
         validators>>

----------------------------------------------------------------------------
(* Bounds of the model *)

MaxNameLen == 2
MaxPwLen == 12
MaxManagers == 2
MaxSenders == 3
MaxNotify == 2
MaxRules == 3

----------------------------------------------------------------------------
(* JavaScript values *)

Undefined == <<"undefined">>

\* !value, for a value that is a string or undefined
Falsy(v) == v = Undefined \/ v = <<>>

\* a || b
OrElse(a, b) == IF Falsy(a) THEN b ELSE a

Lower(c) == IF c = "A" THEN "a" ELSE c

\* String.prototype.toLowerCase
ToLowerCase(s) == [i \in 1..Len(s) |-> Lower(s[i])]

WhiteSpace == {" "}

RECURSIVE TrimStart(_)
TrimStart(s) ==
    IF s # <<>> /\ Head(s) \in WhiteSpace THEN TrimStart(Tail(s)) ELSE s

RECURSIVE TrimEnd(_)
TrimEnd(s) ==
    IF s # <<>> /\ s[Len(s)] \in WhiteSpace
    THEN TrimEnd(SubSeq(s, 1, Len(s) - 1))
    ELSE s

\* String.prototype.trim
Trim(s) == TrimEnd(TrimStart(s))

Letters == {"a", "A"}
Digits == {"1"}
LocalChars == Letters \cup Digits \cup {".", "_", "%", "+", "-"}
DomainChars == Letters \cup Digits \cup {".", "-"}

\* /^[a-zA-Z0-9._%+-]+@[a-zA-Z0-9.-]+\.[a-zA-Z]{2,}$/.test(s)
EmailPatternTest(s) ==
    \E at \in 2..Len(s) : \E dot \in (at + 2)..(Len(s) - 2) :
        /\ \A i \in 1..(at - 1) : s[i] \in LocalChars
        /\ s[at] = "@"
        /\ \A i \in (at + 1)..(dot - 1) : s[i] \in DomainChars
        /\ s[dot] = "."
        /\ \A i \in (dot + 1)..Len(s) : s[i] \in Letters

----------------------------------------------------------------------------
(* Object literals *)

Has(o, k) == \E i \in 1..Len(o) : o[i][1] = k

Get(o, k) == o[CHOOSE i \in 1..Len(o) : o[i][1] = k][2]

\* { ...o, [k]: v }
Put(o, k, v) ==
    IF Has(o, k)
    THEN [i \in 1..Len(o) |-> IF o[i][1] = k THEN <<k, v>> ELSE o[i]]
    ELSE Append(o, <<k, v>>)

\* { ...a, ...b }
RECURSIVE Spread(_, _)
Spread(a, b) ==
    IF b = <<>> THEN a ELSE Spread(Put(a, Head(b)[1], Head(b)[2]), Tail(b))

\* o.k when o may lack the key: the empty object stands for a spread of undefined
GetOrEmpty(o, k) == IF Has(o, k) THEN Get(o, k) ELSE <<>>

----------------------------------------------------------------------------
(* Outcomes of a call: what it threw or returned, and what it printed *)

Return(value, lines) ==
    [threw |-> FALSE, error |-> "", ret |-> <<value>>, lines |-> lines]

Throw(message, lines) ==
    [threw |-> TRUE, error |-> message, ret |-> <<>>, lines |-> lines]

\* the first statement that throws ends the sequence
Then(a, b) == IF a # <<>> THEN a ELSE b

----------------------------------------------------------------------------
(* Program constants *)

EMAIL_MIN_LENGTH == 5
NAME_MIN_LENGTH == 2
PASSWORD_MIN_LENGTH == 8
STRICT_PASSWORD_MIN_LENGTH == 12
STRICT_EMAIL_MIN_LENGTH == 8
LENIENT_PASSWORD_MIN_LENGTH == 6
LENIENT_NAME_MIN_LENGTH == 1

\* the value of the emailPattern key: the one regular expression of the program
EMAIL_PATTERN == "emailPattern"

----------------------------------------------------------------------------
(* The environment of a call: Math.random and the clock.  rnd is the id     *)
(* generateId returns; the first clock read of a call returns 0, a second   *)
(* read returns tick, the time that has passed since.                       *)

FormattingUtils_generateId(env) == env.rnd

FormattingUtils_getCurrentTimestamp(env) == 0

FormattingUtils_formatEmail(email) == Trim(ToLowerCase(email))

FormattingUtils_formatName(name) == Trim(name)

CreatedLine(user) ==
    <<"User created: ">> \o user.name \o <<" (">> \o user.email \o <<")">>

UpdatedLine(user) ==
    <<"User updated: ">> \o user.name \o <<" (">> \o user.email \o <<")">>

----------------------------------------------------------------------------
(* UserManagerWET: the same code in the JavaScript and TypeScript examples *)

UserManagerWET_createUser(userData, env) ==
    IF Falsy(userData.email) \/ Len(userData.email) < 5
    THEN Throw("Invalid email", <<>>)
    ELSE IF Falsy(userData.name) \/ Len(userData.name) < 2
    THEN Throw("Invalid name", <<>>)
    ELSE IF Falsy(userData.password) \/ Len(userData.password) < 8
    THEN Throw("Password too short", <<>>)
    ELSE LET user == [id |-> env.rnd,
                      email |-> Trim(ToLowerCase(userData.email)),
                      name |-> Trim(userData.name),
                      password |-> userData.password,
                      createdAt |-> 0,
                      updatedAt |-> env.tick]
         IN Return(user, <<CreatedLine(user)>>)

UserManagerWET_updateUser(userId, userData, env) ==
    IF Falsy(userData.email) \/ Len(userData.email) < 5
    THEN Throw("Invalid email", <<>>)
    ELSE IF Falsy(userData.name) \/ Len(userData.name) < 2
    THEN Throw("Invalid name", <<>>)
    ELSE IF ~Falsy(userData.password) /\ Len(userData.password) < 8
    THEN Throw("Password too short", <<>>)
    ELSE LET updatedUser == [id |-> userId,
                             email |-> Trim(ToLowerCase(userData.email)),
                             name |-> Trim(userData.name),
                             password |-> userData.password,
                             updatedAt |-> 0]
         IN Return(updatedUser, <<UpdatedLine(updatedUser)>>)

----------------------------------------------------------------------------
(* ValidationUtils: a validator yields <<>> or <<the message it throws>> *)

ValidationUtils_validateEmail_js(email) ==
    IF Falsy(email) \/ Len(email) < EMAIL_MIN_LENGTH
    THEN <<"Invalid email">>
    ELSE <<>>

ValidationUtils_validateEmail_ts(email) ==
    IF Falsy(email) \/ Len(email) < EMAIL_MIN_LENGTH
    THEN <<"Invalid email">>
    ELSE IF ~EmailPatternTest(email)
    THEN <<"Invalid email format">>
    ELSE <<>>

ValidationUtils_validateEmail(lang, email) ==
    IF lang = "js"
    THEN ValidationUtils_validateEmail_js(email)
    ELSE ValidationUtils_validateEmail_ts(email)

\* a name of exactly the minimum length rejected
ValidationUtils_validateName_offByOne(name) ==
    IF Falsy(name) \/ Len(name) <= NAME_MIN_LENGTH
    THEN <<"Invalid name">>
    ELSE <<>>

ValidationUtils_validateName(name) ==
    IF Falsy(name) \/ Len(name) < NAME_MIN_LENGTH
    THEN <<"Invalid name">>
    ELSE <<>>

\* the branch of a required password left out
ValidationUtils_validatePassword_optionalOnly(password, required) ==
    IF ~Falsy(password) /\ Len(password) < PASSWORD_MIN_LENGTH
    THEN <<"Password too short">>
    ELSE <<>>

ValidationUtils_validatePassword(password, required) ==
    IF required /\ (Falsy(password) \/ Len(password) < PASSWORD_MIN_LENGTH)
    THEN <<"Password too short">>
    ELSE IF ~required /\ ~Falsy(password) /\ Len(password) < PASSWORD_MIN_LENGTH
    THEN <<"Password too short">>
    ELSE <<>>

----------------------------------------------------------------------------
(* UserLogger: static in both examples; the TypeScript one has the flag *)

\* a logger that does not read its flag
UserLogger_logUserCreated_always(lang, enabled, user) == <<CreatedLine(user)>>

UserLogger_logUserCreated(lang, enabled, user) ==
    IF lang = "js" \/ enabled THEN <<CreatedLine(user)>> ELSE <<>>

UserLogger_logUserUpdated(lang, enabled, user) ==
    IF lang = "js" \/ enabled THEN <<UpdatedLine(user)>> ELSE <<>>

----------------------------------------------------------------------------
(* UserManagerDRY (JavaScript) and BaseUserManager / UserManagerDRY         *)
(* (TypeScript)                                                             *)

\* the password required on update as well
UserManagerDRY_validateUserData_alwaysRequired(lang, userData, isUpdate) ==
    Then(ValidationUtils_validateEmail(lang, userData.email),
    Then(ValidationUtils_validateName(userData.name),
         ValidationUtils_validatePassword(
             IF lang = "js" THEN userData.password
                            ELSE OrElse(userData.password, <<>>),
             TRUE)))

\* JavaScript passes userData.password, TypeScript userData.password || ""
UserManagerDRY_validateUserData(lang, userData, isUpdate) ==
    Then(ValidationUtils_validateEmail(lang, userData.email),
    Then(ValidationUtils_validateName(userData.name),
         ValidationUtils_validatePassword(
             IF lang = "js" THEN userData.password
                            ELSE OrElse(userData.password, <<>>),
             ~isUpdate)))

\* userId is Undefined when the argument is omitted
UserManagerDRY_formatUserData(userData, userId, env) ==
    LET timestamp == FormattingUtils_getCurrentTimestamp(env) IN
    IF Falsy(userId)
    THEN [id |-> OrElse(userId, FormattingUtils_generateId(env)),
          email |-> FormattingUtils_formatEmail(userData.email),
          name |-> FormattingUtils_formatName(userData.name),
          password |-> userData.password,
          createdAt |-> timestamp,
          updatedAt |-> timestamp]
    ELSE [id |-> OrElse(userId, FormattingUtils_generateId(env)),
          email |-> FormattingUtils_formatEmail(userData.email),
          name |-> FormattingUtils_formatName(userData.name),
          password |-> userData.password,
          updatedAt |-> timestamp]

UserManagerDRY_createUser(lang, enabled, userData, env) ==
    LET thrown == UserManagerDRY_validateUserData(lang, userData, FALSE) IN
    IF thrown # <<>>
    THEN Throw(thrown[1], <<>>)
    ELSE LET user == UserManagerDRY_formatUserData(userData, Undefined, env)
         IN Return(user, UserLogger_logUserCreated(lang, enabled, user))

UserManagerDRY_updateUser(lang, enabled, userId, userData, env) ==
    LET thrown == UserManagerDRY_validateUserData(lang, userData, TRUE) IN
    IF thrown # <<>>
    THEN Throw(thrown[1], <<>>)
    ELSE LET updatedUser == UserManagerDRY_formatUserData(userData, userId, env)
         IN Return(updatedUser, UserLogger_logUserUpdated(lang, enabled, updatedUser))

----------------------------------------------------------------------------
(* ConfigurableUserManager.  cfgArg is <<>> when the constructor is called  *)
(* without argument and <<config>> otherwise.                               *)

\* the defaults spread after the argument, so that they win
ConfigurableUserManager_constructor_js_defaultsWin(cfgArg) ==
    LET config == IF cfgArg = <<>> THEN <<>> ELSE cfgArg[1] IN
    << <<"validation",
         Spread(GetOrEmpty(config, "validation"),
                << <<"emailMinLength", EMAIL_MIN_LENGTH>>,
                   <<"nameMinLength", NAME_MIN_LENGTH>>,
                   <<"passwordMinLength", PASSWORD_MIN_LENGTH>> >>)>>,
       <<"logging",
         Spread(GetOrEmpty(config, "logging"), << <<"enabled", TRUE>> >>)>> >>

ConfigurableUserManager_constructor_js(cfgArg) ==
    LET config == IF cfgArg = <<>> THEN <<>> ELSE cfgArg[1] IN
    << <<"validation",
         Spread(<< <<"emailMinLength", EMAIL_MIN_LENGTH>>,
                   <<"nameMinLength", NAME_MIN_LENGTH>>,
                   <<"passwordMinLength", PASSWORD_MIN_LENGTH>> >>,
                GetOrEmpty(config, "validation"))>>,
       <<"logging",
         Spread(<< <<"enabled", TRUE>> >>, GetOrEmpty(config, "logging"))>> >>

ConfigurableUserManager_constructor_ts(cfgArg) ==
    LET config == IF cfgArg = <<>> THEN <<>> ELSE cfgArg[1] IN
    << <<"validation",
         Spread(<< <<"emailMinLength", EMAIL_MIN_LENGTH>>,
                   <<"nameMinLength", NAME_MIN_LENGTH>>,
                   <<"passwordMinLength", PASSWORD_MIN_LENGTH>>,
                   <<"emailPattern", EMAIL_PATTERN>> >>,
                GetOrEmpty(config, "validation"))>>,
       <<"logging",
         Spread(<< <<"enabled", TRUE>>, <<"level", "info">> >>,
                GetOrEmpty(config, "logging"))>> >>

\* new ConfigurableUserManager(config): the object the heap holds
ConfigurableUserManager_new(lang, cfgArg) ==
    [lang |-> lang,
     config |-> IF lang = "js"
                THEN ConfigurableUserManager_constructor_js(cfgArg)
                ELSE ConfigurableUserManager_constructor_ts(cfgArg)]

\* validate (JavaScript), validateField (TypeScript)
ConfigurableUserManager_validate(field, value, minLength) ==
    IF Falsy(value) \/ Len(value) < minLength
    THEN <<"Invalid " \o field>>
    ELSE <<>>

\* RegExp.prototype.test of the configured pattern
PatternTest(pattern, s) == pattern = EMAIL_PATTERN /\ EmailPatternTest(s)

ConfigurableUserManager_validateUserData_js(this, userData, isUpdate) ==
    LET validation == Get(this.config, "validation") IN
    Then(ConfigurableUserManager_validate(
             "email", userData.email, Get(validation, "emailMinLength")),
    Then(ConfigurableUserManager_validate(
             "name", userData.name, Get(validation, "nameMinLength")),
         IF ~isUpdate \/ ~Falsy(userData.password)
         THEN ConfigurableUserManager_validate(
                  "password", userData.password,
                  Get(validation, "passwordMinLength"))
         ELSE <<>>))

ConfigurableUserManager_validateUserData_ts(this, userData, isUpdate) ==
    LET validation == Get(this.config, "validation") IN
    Then(ConfigurableUserManager_validate(
             "email", userData.email, Get(validation, "emailMinLength")),
    Then(IF ~PatternTest(Get(validation, "emailPattern"), userData.email)
         THEN <<"Invalid email format">>
         ELSE <<>>,
    Then(ConfigurableUserManager_validate(
             "name", userData.name, Get(validation, "nameMinLength")),
         IF ~isUpdate \/ ~Falsy(userData.password)
         THEN ConfigurableUserManager_validate(
                  "password", OrElse(userData.password, <<>>),
                  Get(validation, "passwordMinLength"))
         ELSE <<>>)))

ConfigurableUserManager_validateUserData(this, userData, isUpdate) ==
    IF this.lang = "js"
    THEN ConfigurableUserManager_validateUserData_js(this, userData, isUpdate)
    ELSE ConfigurableUserManager_validateUserData_ts(this, userData, isUpdate)

ConfigurableUserManager_formatUserData(userData, userId, env) ==
    LET timestamp == FormattingUtils_getCurrentTimestamp(env) IN
    IF Falsy(userId)
    THEN [id |-> OrElse(userId, FormattingUtils_generateId(env)),
          email |-> FormattingUtils_formatEmail(userData.email),
          name |-> FormattingUtils_formatName(userData.name),
          password |-> userData.password,
          createdAt |-> timestamp,
          updatedAt |-> timestamp]
    ELSE [id |-> OrElse(userId, FormattingUtils_generateId(env)),
          email |-> FormattingUtils_formatEmail(userData.email),
          name |-> FormattingUtils_formatName(userData.name),
          password |-> userData.password,
          updatedAt |-> timestamp]

\* the level only selects the console method; the line is the same
ConfigurableUserManager_log(this, message) ==
    IF Get(Get(this.config, "logging"), "enabled") THEN <<message>> ELSE <<>>

ConfigurableUserManager_createUser(this, userData, env) ==
    LET thrown == ConfigurableUserManager_validateUserData(this, userData, FALSE) IN
    IF thrown # <<>>
    THEN Throw(thrown[1], <<>>)
    ELSE LET user == ConfigurableUserManager_formatUserData(userData, Undefined, env)
         IN Return(user, ConfigurableUserManager_log(this, CreatedLine(user)))

ConfigurableUserManager_updateUser(this, userId, userData, env) ==
    LET thrown == ConfigurableUserManager_validateUserData(this, userData, TRUE) IN
    IF thrown # <<>>
    THEN Throw(thrown[1], <<>>)
    ELSE LET updatedUser == ConfigurableUserManager_formatUserData(userData, userId, env)
         IN Return(updatedUser,
                   ConfigurableUserManager_log(this, UpdatedLine(updatedUser)))

----------------------------------------------------------------------------
(* TemplateUserManager and ConcreteUserManager (TypeScript) *)

\* the password checked before the name
ConcreteUserManager_validateInput_passwordFirst(userData, isUpdate) ==
    Then(ValidationUtils_validateEmail_ts(userData.email),
    Then(ValidationUtils_validatePassword(
             OrElse(userData.password, <<>>), ~isUpdate),
         ValidationUtils_validateName(userData.name)))

ConcreteUserManager_validateInput(userData, isUpdate) ==
    Then(ValidationUtils_validateEmail_ts(userData.email),
    Then(ValidationUtils_validateName(userData.name),
         ValidationUtils_validatePassword(
             OrElse(userData.password, <<>>), ~isUpdate)))

ConcreteUserManager_formatUser(userData, userId, env) ==
    LET timestamp == FormattingUtils_getCurrentTimestamp(env) IN
    IF Falsy(userId)
    THEN [id |-> OrElse(userId, FormattingUtils_generateId(env)),
          email |-> FormattingUtils_formatEmail(userData.email),
          name |-> FormattingUtils_formatName(userData.name),
          password |-> userData.password,
          updatedAt |-> timestamp,
          createdAt |-> timestamp]
    ELSE [id |-> OrElse(userId, FormattingUtils_generateId(env)),
          email |-> FormattingUtils_formatEmail(userData.email),
          name |-> FormattingUtils_formatName(userData.name),
          password |-> userData.password,
          updatedAt |-> timestamp]

ConcreteUserManager_logOperation(user, isUpdate) ==
    IF isUpdate THEN <<UpdatedLine(user)>> ELSE <<CreatedLine(user)>>

ConcreteUserManager_performAdditionalOperations(user) ==
    << <<"Performing additional operations for user: ">> \o user.id >>

\* the operation logged before the input is validated
TemplateUserManager_processUser_logsFirst(userData, userId, env) ==
    LET user == ConcreteUserManager_formatUser(userData, userId, env)
        lines == ConcreteUserManager_logOperation(user, ~Falsy(userId))
        thrown == ConcreteUserManager_validateInput(userData, ~Falsy(userId))
    IN IF thrown # <<>>
       THEN Throw(thrown[1], lines)
       ELSE Return(user,
                   lines \o ConcreteUserManager_performAdditionalOperations(user))

\* !!userId decides between the create and the update path
TemplateUserManager_processUser(userData, userId, env) ==
    LET thrown == ConcreteUserManager_validateInput(userData, ~Falsy(userId)) IN
    IF thrown # <<>>
    THEN Throw(thrown[1], <<>>)
    ELSE LET user == ConcreteUserManager_formatUser(userData, userId, env)
         IN Return(user,
                   ConcreteUserManager_logOperation(user, ~Falsy(userId))
                   \o ConcreteUserManager_performAdditionalOperations(user))

ConcreteUserManager_createUser(userData, env) ==
    TemplateUserManager_processUser(userData, Undefined, env)

ConcreteUserManager_updateUser(userId, userData, env) ==
    TemplateUserManager_processUser(userData, userId, env)

----------------------------------------------------------------------------
(* UserManagerFactory (TypeScript) *)

BoolJson(b) == IF b THEN "true" ELSE "false"

\* JSON.stringify of the value of key k: a number, a boolean, a string, or the
\* regular expression, which has no enumerable property and prints as {}
ScalarJson(k, v) ==
    CASE k = "enabled" -> <<BoolJson(v)>>
      [] k = "level" -> <<"\"", v, "\"">>
      [] k = "emailPattern" -> <<"{}">>
      [] OTHER -> <<ToString(v)>>

RECURSIVE MembersJson(_, _)
MembersJson(o, nested) ==
    IF o = <<>> THEN <<>>
    ELSE <<"\"", Head(o)[1], "\":">>
         \o (IF nested
             THEN <<"{">> \o MembersJson(Head(o)[2], FALSE) \o <<"}">>
             ELSE ScalarJson(Head(o)[1], Head(o)[2]))
         \o (IF Tail(o) = <<>> THEN <<>> ELSE <<",">>)
         \o MembersJson(Tail(o), nested)

\* JSON.stringify(config) of a partial UserManagerConfig
JsonStringify(config) == <<"{">> \o MembersJson(config, TRUE) \o <<"}">>

FactoryConfigs(type) ==
    CASE type = "basic" -> <<>>
      [] type = "strict" ->
            << <<"validation",
                 << <<"passwordMinLength", STRICT_PASSWORD_MIN_LENGTH>>,
                    <<"emailMinLength", STRICT_EMAIL_MIN_LENGTH>> >> >> >>
      [] type = "lenient" ->
            << <<"validation",
                 << <<"passwordMinLength", LENIENT_PASSWORD_MIN_LENGTH>>,
                    <<"nameMinLength", LENIENT_NAME_MIN_LENGTH>> >> >> >>

\* a key that leaves the type out
UserManagerFactory_key_configOnly(type, cfgArg) ==
    JsonStringify(IF cfgArg = <<>> THEN <<>> ELSE cfgArg[1])

\* `${type}_${JSON.stringify(customConfig || {})}`
UserManagerFactory_key(type, cfgArg) ==
    <<type, "_">> \o JsonStringify(IF cfgArg = <<>> THEN <<>> ELSE cfgArg[1])

\* { ...configs[type], ...customConfig }
UserManagerFactory_config(type, cfgArg) ==
    Spread(FactoryConfigs(type), IF cfgArg = <<>> THEN <<>> ELSE cfgArg[1])

----------------------------------------------------------------------------
(* The record of a completed call *)

NoUserData == [email |-> Undefined, name |-> Undefined, password |-> Undefined]
NoEnv == [rnd |-> <<>>, tick |-> 0]

\* arg: the argument of a call that takes neither a userId nor a userData
Called(cls, lang, op, recv, userId, userData, env, out) ==
    <<[cls |-> cls, lang |-> lang, op |-> op, recv |-> recv, arg |-> <<>>,
       userId |-> userId, userData |-> userData, env |-> env, out |-> out]>>

CalledWith(cls, lang, op, arg, out) ==
    <<[cls |-> cls, lang |-> lang, op |-> op, recv |-> 0, arg |-> arg,
       userId |-> Undefined, userData |-> NoUserData, env |-> NoEnv, out |-> out]>>

----------------------------------------------------------------------------
(* Operations.  Each is one call made by the top-level script. *)

WetCreateUser(lang, userData, env) ==
    /\ phase = "top"
    /\ phase' = "called"
    /\ last' = Called("WET", lang, "createUser", 0, Undefined, userData, env,
                      UserManagerWET_createUser(userData, env))
    /\ UNCHANGED <<isEnabled, heap, instances, inp, senders, sent, made, validators>>

WetUpdateUser(lang, userId, userData, env) ==
    /\ phase = "top"
    /\ phase' = "called"
    /\ last' = Called("WET", lang, "updateUser", 0, userId, userData, env,
                      UserManagerWET_updateUser(userId, userData, env))
    /\ UNCHANGED <<isEnabled, heap, instances, inp, senders, sent, made, validators>>

DryCreateUser(lang, userData, env) ==
    /\ phase = "top"
    /\ phase' = "called"
    /\ last' = Called("DRY", lang, "createUser", 0, Undefined, userData, env,
                      UserManagerDRY_createUser(lang, isEnabled, userData, env))
    /\ UNCHANGED <<isEnabled, heap, instances, inp, senders, sent, made, validators>>

DryUpdateUser(lang, userId, userData, env) ==
    /\ phase = "top"
    /\ phase' = "called"
    /\ last' = Called("DRY", lang, "updateUser", 0, userId, userData, env,
                      UserManagerDRY_updateUser(lang, isEnabled, userId, userData, env))
    /\ UNCHANGED <<isEnabled, heap, instances, inp, senders, sent, made, validators>>

ConcreteCreateUser(userData, env) ==
    /\ phase = "top"
    /\ phase' = "called"
    /\ last' = Called("Concrete", "ts", "createUser", 0, Undefined, userData, env,
                      ConcreteUserManager_createUser(userData, env))
    /\ UNCHANGED <<isEnabled, heap, instances, inp, senders, sent, made, validators>>

ConcreteUpdateUser(userId, userData, env) ==
    /\ phase = "top"
    /\ phase' = "called"
    /\ last' = Called("Concrete", "ts", "updateUser", 0, userId, userData, env,
                      ConcreteUserManager_updateUser(userId, userData, env))
    /\ UNCHANGED <<isEnabled, heap, instances, inp, senders, sent, made, validators>>

\* new ConfigurableUserManager(config)
NewConfigurableUserManager(lang, cfgArg) ==
    /\ phase = "top"
    /\ Len(heap) < MaxManagers
    /\ heap' = Append(heap, ConfigurableUserManager_new(lang, cfgArg))
    /\ UNCHANGED <<phase, isEnabled, instances, last, inp, senders, sent, made, validators>>

ConfigurableCreateUser(m, userData, env) ==
    /\ phase = "top"
    /\ m \in 1..Len(heap)
    /\ phase' = "called"
    /\ last' = Called("Configurable", heap[m].lang, "createUser", m, Undefined,
                      userData, env,
                      ConfigurableUserManager_createUser(heap[m], userData, env))
    /\ UNCHANGED <<isEnabled, heap, instances, inp, senders, sent, made, validators>>

ConfigurableUpdateUser(m, userId, userData, env) ==
    /\ phase = "top"
    /\ m \in 1..Len(heap)
    /\ phase' = "called"
    /\ last' = Called("Configurable", heap[m].lang, "updateUser", m, userId,
                      userData, env,
                      ConfigurableUserManager_updateUser(heap[m], userId, userData, env))
    /\ UNCHANGED <<isEnabled, heap, instances, inp, senders, sent, made, validators>>

\* UserLogger.configure(enabled)
Configure(enabled) ==
    /\ phase = "top"
    /\ isEnabled' = enabled
    /\ UNCHANGED <<phase, heap, instances, last, inp, senders, sent, made, validators>>

\* UserManagerFactory.createManager(type, customConfig): the value returned is the
\* index of the manager in the heap, with whether the call constructed it
CreateManager(type, cfgArg) ==
    LET key == UserManagerFactory_key(type, cfgArg) IN
    /\ phase = "top"
    /\ phase' = "called"
    /\ IF Has(instances, key)
       THEN /\ last' = CalledWith("Factory", "ts", "createManager",
                              <<type, cfgArg>>,
                              Return([manager |-> Get(instances, key),
                                      constructed |-> FALSE], <<>>))
            /\ made' = made \cup {<<type, cfgArg, Get(instances, key)>>}
            /\ UNCHANGED <<heap, instances>>
       ELSE /\ Len(heap) < MaxManagers
            /\ heap' = Append(heap,
                   ConfigurableUserManager_new("ts",
                       <<UserManagerFactory_config(type, cfgArg)>>))
            /\ instances' = Append(instances, <<key, Len(heap) + 1>>)
            /\ last' = CalledWith("Factory", "ts", "createManager",
                              <<type, cfgArg>>,
                              Return([manager |-> Len(heap) + 1,
                                      constructed |-> TRUE], <<>>))
            /\ made' = made \cup {<<type, cfgArg, Len(heap) + 1>>}
    /\ UNCHANGED <<isEnabled, inp, senders, sent, validators>>

\* the script goes on to its next statement; the value or the error is dropped
Continue ==
    /\ phase = "called"
    /\ phase' = "top"
    /\ last' = <<>>
    /\ UNCHANGED <<isEnabled, heap, instances, inp, senders, sent, made, validators>>

\* UserLogger.logUserCreated(user), called by the script itself
LogUserCreated(lang, user) ==
    /\ phase = "top"
    /\ phase' = "called"
    /\ last' = CalledWith("UserLogger", lang, "logUserCreated", <<user>>,
                          Return(Undefined,
                                 UserLogger_logUserCreated(lang, isEnabled, user)))
    /\ UNCHANGED <<isEnabled, heap, instances, inp, senders, sent, made, validators>>

----------------------------------------------------------------------------
(* NotificationService (SOLID example; the same code in both languages) *)

EmailSender_send(message) == <<"Sending EMAIL: ">> \o message.content
SMSSender_send(message) == <<"Sending SMS: ">> \o message.content
PushSender_send(message) == <<"Sending PUSH: ">> \o message.content

\* sender.send(message): the call as the sender sees it, and the line it prints
Send(sender, message) ==
    [sender |-> sender,
     message |-> message,
     line |-> CASE sender = "EmailSender" -> EmailSender_send(message)
                [] sender = "SMSSender" -> SMSSender_send(message)
                [] sender = "PushSender" -> PushSender_send(message)]

\* a forEach that walks the list from its end
RECURSIVE ForEachSend_reversed(_, _)
ForEachSend_reversed(list, message) ==
    IF list = <<>> THEN <<>>
    ELSE ForEachSend_reversed(Tail(list), message) \o <<Send(Head(list), message)>>

\* list.forEach((sender) => sender.send(message))
RECURSIVE ForEachSend(_, _)
ForEachSend(list, message) ==
    IF list = <<>> THEN <<>>
    ELSE <<Send(Head(list), message)>> \o ForEachSend(Tail(list), message)

NotificationService_notify(message) ==
    /\ phase = "top"
    /\ Len(sent) + Len(senders) <= MaxNotify * MaxSenders
    /\ phase' = "called"
    /\ sent' = sent \o ForEachSend(senders, message)
    /\ last' = CalledWith("NotificationService", "js", "notify", <<message>>,
                          Return(Undefined,
                                 LET calls == ForEachSend(senders, message)
                                 IN [i \in 1..Len(calls) |-> calls[i].line]))
    /\ UNCHANGED <<isEnabled, heap, instances, inp, senders, made, validators>>

----------------------------------------------------------------------------
(* Inputs *)

Seqs(A, n) == UNION {[1..k -> A] : k \in 0..n}

Rep(c, n) == [i \in 1..n |-> c]

\* one e-mail for each way through validateEmail, formatEmail and the pattern
Emails ==
    { Undefined,
      <<>>,
      <<"a", "@", "a", ".">>,                            \* 4 characters
      <<"a", "@", "a", ".", "a">>,                       \* 5, top-level domain too short
      <<"a", "@", "a", ".", "a", "a">>,                  \* 6, matches the pattern
      <<"A", "@", "a", ".", "a", "A">>,                  \* 6, matches, upper case
      <<"a", "@", "a", ".", "a", "a", "a">>,             \* 7, matches
      <<"a", "_", "@", "1", ".", "a", "a", "a">>,        \* 8, matches
      <<" ", "a", "@", "a", ".", "a", "a", " ">>,        \* 8, blanks around a match
      <<"a", "a", "a", "a", "a", "a", "a", "a">> }       \* 8, no @

Names == {Undefined} \cup Seqs({"n", " "}, MaxNameLen)

Passwords == {Undefined} \cup {Rep("p", n) : n \in 0..MaxPwLen}

UserDatas == [email : Emails, name : Names, password : Passwords]

GenIds == {<<"g1">>, <<"g2">>}

UserIds == {<<>>, <<"u1">>}

Langs == {"js", "ts"}

Validation(o) == << <<"validation", o>> >>
Logging(o) == << <<"logging", o>> >>

\* constructor arguments: none, empty, each key alone, several keys
CfgArgs ==
    { <<>>,
      << <<>> >>,
      << Validation(<< <<"passwordMinLength", 12>> >>) >>,
      << Validation(<< <<"emailMinLength", 8>> >>) >>,
      << Validation(<< <<"nameMinLength", 1>> >>) >>,
      << Logging(<< <<"enabled", FALSE>> >>) >>,
      << Validation(<< <<"nameMinLength", 1>>, <<"passwordMinLength", 6>> >>)
         \o Logging(<< <<"enabled", TRUE>> >>) >> }

\* the random id is read on the create path only, the clock twice by WET's createUser
Envs(cls, op, userId) ==
    [rnd : IF (cls = "WET" /\ op = "updateUser") \/ ~Falsy(userId)
           THEN {<<"g1">>} ELSE GenIds,
     tick : IF cls = "WET" /\ op = "createUser" THEN 0..1 ELSE {0}]

CallInputs(cls, langs, cfgArgs) ==
    UNION { UNION { [cls : {cls}, lang : langs, cfgArg : cfgArgs, op : {op},
                     userId : {userId}, userData : UserDatas,
                     env : Envs(cls, op, userId)]
                   : userId \in IF op = "createUser" THEN {Undefined} ELSE UserIds }
          : op \in {"createUser", "updateUser"} }

Inputs ==
    CallInputs("WET", Langs, {<<>>})
    \cup CallInputs("DRY", Langs, {<<>>})
    \cup CallInputs("Concrete", {"ts"}, {<<>>})
    \cup CallInputs("Configurable", Langs, CfgArgs)

NoInput ==
    [cls |-> "", lang |-> "", cfgArg |-> <<>>, op |-> "", userId |-> Undefined,
     userData |-> NoUserData, env |-> NoEnv]

----------------------------------------------------------------------------
(* One call of one manager on every input: the managers as functions *)

InitCall ==
    /\ inp \in Inputs
    /\ phase = "top"
    /\ isEnabled = TRUE
    /\ heap = <<>>
    /\ instances = <<>>
    /\ last = <<>>
    /\ senders = <<>>
    /\ sent = <<>>
    /\ made = {}
    /\ validators = <<>>

NextCall ==
    \/ /\ inp.cls = "WET" /\ inp.op = "createUser"
       /\ WetCreateUser(inp.lang, inp.userData, inp.env)
    \/ /\ inp.cls = "WET" /\ inp.op = "updateUser"
       /\ WetUpdateUser(inp.lang, inp.userId, inp.userData, inp.env)
    \/ /\ inp.cls = "DRY" /\ inp.op = "createUser"
       /\ DryCreateUser(inp.lang, inp.userData, inp.env)
    \/ /\ inp.cls = "DRY" /\ inp.op = "updateUser"
       /\ DryUpdateUser(inp.lang, inp.userId, inp.userData, inp.env)
    \/ /\ inp.cls = "Concrete" /\ inp.op = "createUser"
       /\ ConcreteCreateUser(inp.userData, inp.env)
    \/ /\ inp.cls = "Concrete" /\ inp.op = "updateUser"
       /\ ConcreteUpdateUser(inp.userId, inp.userData, inp.env)
    \/ /\ inp.cls = "Configurable" /\ heap = <<>>
       /\ NewConfigurableUserManager(inp.lang, inp.cfgArg)
    \/ /\ inp.cls = "Configurable" /\ inp.op = "createUser"
       /\ ConfigurableCreateUser(1, inp.userData, inp.env)
    \/ /\ inp.cls = "Configurable" /\ inp.op = "updateUser"
       /\ ConfigurableUpdateUser(1, inp.userId, inp.userData, inp.env)

SpecCall == InitCall /\ [][NextCall]_vars

----------------------------------------------------------------------------
(* The script: any sequence of calls, on a sample of the inputs *)

SampleUserDatas ==
    [email : { Undefined, <<"A", "_", "@", "1", ".", "a", "a", "a">> },
     name : { <<"n">>, <<"n", "n">> },
     password : { Undefined, Rep("p", PASSWORD_MIN_LENGTH) }]

\* the constructor argument of the usage examples
SampleCfgArgs ==
    { << Validation(<< <<"passwordMinLength", 12>> >>) >> }

SampleCustomConfigs ==
    { <<>>, << Logging(<< <<"enabled", FALSE>> >>) >> }

ManagerTypes == {"basic", "strict", "lenient"}

SampleUsers ==
    { [id |-> <<"u1">>, email |-> <<"a", "@", "a", ".", "a", "a">>,
       name |-> <<"n", "n">>, password |-> Undefined, updatedAt |-> 0] }

Init ==
    /\ phase = "top"
    /\ isEnabled = TRUE
    /\ heap = <<>>
    /\ instances = <<>>
    /\ last = <<>>
    /\ inp = NoInput
    /\ senders = <<>>
    /\ sent = <<>>
    /\ made = {}
    /\ validators = <<>>

Next ==
    \/ \E lang \in Langs, userData \in SampleUserDatas :
         \E env \in Envs("WET", "createUser", Undefined) :
            WetCreateUser(lang, userData, env)
    \/ \E lang \in Langs, userId \in UserIds, userData \in SampleUserDatas :
         \E env \in Envs("WET", "updateUser", userId) :
            WetUpdateUser(lang, userId, userData, env)
    \/ \E lang \in Langs, userData \in SampleUserDatas :
         \E env \in Envs("DRY", "createUser", Undefined) :
            DryCreateUser(lang, userData, env)
    \/ \E lang \in Langs, userId \in UserIds, userData \in SampleUserDatas :
         \E env \in Envs("DRY", "updateUser", userId) :
            DryUpdateUser(lang, userId, userData, env)
    \/ \E userData \in SampleUserDatas :
         \E env \in Envs("Concrete", "createUser", Undefined) :
            ConcreteCreateUser(userData, env)
    \/ \E userId \in UserIds, userData \in SampleUserDatas :
         \E env \in Envs("Concrete", "updateUser", userId) :
            ConcreteUpdateUser(userId, userData, env)
    \/ \E lang \in Langs, cfgArg \in SampleCfgArgs :
         NewConfigurableUserManager(lang, cfgArg)
    \/ \E m \in 1..Len(heap), userData \in SampleUserDatas :
         \E env \in Envs("Configurable", "createUser", Undefined) :
            ConfigurableCreateUser(m, userData, env)
    \/ \E m \in 1..Len(heap), userId \in UserIds, userData \in SampleUserDatas :
         \E env \in Envs("Configurable", "updateUser", userId) :
            ConfigurableUpdateUser(m, userId, userData, env)
    \/ \E enabled \in BOOLEAN : Configure(enabled)
    \/ \E type \in ManagerTypes, cfgArg \in SampleCustomConfigs :
         CreateManager(type, cfgArg)
    \/ \E lang \in Langs, user \in SampleUsers : LogUserCreated(lang, user)
    \/ Continue

Spec == Init /\ [][Next]_vars

----------------------------------------------------------------------------
(* The notification example: a service built from any list of senders *)

SenderKinds == {"EmailSender", "SMSSender", "PushSender"}

Contents == {<<"Welcome to the platform!">>, <<>>}

InitNotify ==
    /\ senders \in Seqs(SenderKinds, MaxSenders)
    /\ sent = <<>>
    /\ made = {}
    /\ validators = <<>>
    /\ phase = "top"
    /\ isEnabled = TRUE
    /\ heap = <<>>
    /\ instances = <<>>
    /\ last = <<>>
    /\ inp = NoInput

NextNotify ==
    \/ \E content \in Contents : NotificationService_notify([content |-> content])
    \/ Continue

SpecNotify == InitNotify /\ [][NextNotify]_vars

----------------------------------------------------------------------------
(* The factory on its own: any sequence of createManager calls *)

\* customConfig arguments: omitted, {}, one section, and both sections in either
\* order of insertion
CustomConfigs ==
    LET logging == Logging(<< <<"enabled", FALSE>> >>)
        validation == Validation(<< <<"passwordMinLength", 10>> >>)
    IN { <<>>, << <<>> >>, <<logging>>, <<validation>>,
         <<validation \o logging>>, <<logging \o validation>> }

InitFactory == Init

NextFactory ==
    \/ \E type \in ManagerTypes, cfgArg \in CustomConfigs :
         CreateManager(type, cfgArg)
    \/ Continue

SpecFactory == InitFactory /\ [][NextFactory]_vars

----------------------------------------------------------------------------
(* GenericValidator<string> (TypeScript) *)

\* the rules: pure functions (value: string) => boolean, known by name
RuleKinds == {"nonEmpty", "short", "isA"}

RuleHolds(rule, value) ==
    CASE rule = "nonEmpty" -> Len(value) > 0
      [] rule = "short" -> Len(value) <= 2
      [] rule = "isA" -> value = <<"a">>

Values == {<<>>, <<"a">>, <<"b", "b">>, <<"a", "a", "a">>}

\* new GenericValidator(errorMessage)
GenericValidator_new(errorMessage) ==
    [errorMessage |-> errorMessage, rules |-> <<>>]

\* this.rules.push(rule)
GenericValidator_addRule(this, rule) ==
    [this EXCEPT !.rules = Append(@, rule)]

\* every rule is evaluated before the error is thrown
RECURSIVE GenericValidator_validate_evaluatesAll(_, _, _, _)
GenericValidator_validate_evaluatesAll(this, value, i, evaluated) ==
    IF i > Len(this.rules)
    THEN [out |-> IF \E j \in 1..Len(this.rules) :
                        ~RuleHolds(this.rules[j], value)
                  THEN Throw(this.errorMessage, <<>>)
                  ELSE Return(Undefined, <<>>),
          evaluated |-> evaluated]
    ELSE GenericValidator_validate_evaluatesAll(this, value, i + 1,
                                     Append(evaluated, this.rules[i]))

\* for (const rule of this.rules) from the i-th rule on; evaluated: the rules
\* called so far
RECURSIVE GenericValidator_validate(_, _, _, _)
GenericValidator_validate(this, value, i, evaluated) ==
    IF i > Len(this.rules)
    THEN [out |-> Return(Undefined, <<>>), evaluated |-> evaluated]
    ELSE IF ~RuleHolds(this.rules[i], value)
    THEN [out |-> Throw(this.errorMessage, <<>>),
          evaluated |-> Append(evaluated, this.rules[i])]
    ELSE GenericValidator_validate(this, value, i + 1,
                                   Append(evaluated, this.rules[i]))

\* the record of a completed call on validator recv; evaluated: the rule calls
\* the call made, in order
ValidatorCalled(op, recv, arg, out, evaluated) ==
    <<[cls |-> "GenericValidator", lang |-> "ts", op |-> op, recv |-> recv,
       arg |-> arg, out |-> out, evaluated |-> evaluated]>>

\* validators[v].addRule(rule); the value returned is the receiver
AddRule(v, rule) ==
    /\ phase = "top"
    /\ Len(validators[v].rules) < MaxRules
    /\ phase' = "called"
    /\ validators' = [validators EXCEPT ![v] = GenericValidator_addRule(@, rule)]
    /\ last' = ValidatorCalled("addRule", v, <<rule>>, Return(v, <<>>), <<>>)
    /\ UNCHANGED <<isEnabled, heap, instances, inp, senders, sent, made>>

\* validators[v].validate(value)
Validate(v, value) ==
    LET done == GenericValidator_validate(validators[v], value, 1, <<>>) IN
    /\ phase = "top"
    /\ phase' = "called"
    /\ last' = ValidatorCalled("validate", v, <<value>>, done.out, done.evaluated)
    /\ UNCHANGED <<isEnabled, heap, instances, inp, senders, sent, made,
                   validators>>

\* two validators, constructed with different messages
InitValidator ==
    /\ phase = "top"
    /\ isEnabled = TRUE
    /\ heap = <<>>
    /\ instances = <<>>
    /\ last = <<>>
    /\ inp = NoInput
    /\ senders = <<>>
    /\ sent = <<>>
    /\ made = {}
    /\ validators = <<GenericValidator_new("Invalid email"),
                      GenericValidator_new("Invalid name")>>

NextValidator ==
    \/ \E v \in 1..Len(validators), rule \in RuleKinds : AddRule(v, rule)
    \/ \E v \in 1..Len(validators), value \in Values : Validate(v, value)
    \/ Continue

SpecValidator == InitValidator /\ [][NextValidator]_vars

----------------------------------------------------------------------------
(* Properties *)

Call == last[1]
Out == last[1].out
IsCalled == phase = "called" /\ last # <<>>
CallStep == phase = "top" /\ phase' = "called"

\* C1: each notify(message) calls send once on every entry of the sender list,
\* in list order and with the message of the notify, calls nothing when the list
\* is empty, and leaves the list as it was.
C1_NotifySendsToEachInOrder ==
    [][CallStep =>
        /\ Len(sent') = Len(sent) + Len(senders)
        /\ SubSeq(sent', 1, Len(sent)) = sent
        /\ \A i \in 1..Len(senders) :
              /\ sent'[Len(sent) + i].sender = senders[i]
              /\ sent'[Len(sent) + i].message = last'[1].arg[1]
        /\ senders' = senders]_vars

C1_Witness ==
    /\ IsCalled
    /\ Call.op = "notify"
    /\ Len(senders) = 3
    /\ senders[1] # senders[2] /\ senders[2] # senders[3]
    /\ Len(sent) = 2 * Len(senders)
    /\ sent[4].sender = senders[1]

----------------------------------------------------------------------------
(* What the claims say of an input, stated without the managers' code *)

IsManagerCall ==
    IsCalled /\ Call.cls \in {"WET", "DRY", "Configurable", "Concrete"}

\* the limits of the manager that was called
Limit(c, key, default) ==
    IF c.cls = "Configurable"
    THEN Get(Get(heap[c.recv].config, "validation"), key)
    ELSE default

EmailMin(c) == Limit(c, "emailMinLength", 5)
NameMin(c) == Limit(c, "nameMinLength", 2)
PasswordMin(c) == Limit(c, "passwordMinLength", 8)

AbsentOrShorter(v, min) == v = Undefined \/ v = <<>> \/ Len(v) < min

\* valid in every manager: long enough and of the e-mail pattern
ValidEmail(c) ==
    ~AbsentOrShorter(c.userData.email, EmailMin(c)) /\ EmailPatternTest(c.userData.email)

ValidName(c) == ~AbsentOrShorter(c.userData.name, NameMin(c))

UserFields == {"id", "email", "name", "password", "updatedAt"}

IsUserRecord(r) == UserFields \subseteq DOMAIN r

WellFormed(userData) ==
    /\ ~AbsentOrShorter(userData.email, 5) /\ EmailPatternTest(userData.email)
    /\ ~AbsentOrShorter(userData.name, 2)
    /\ ~AbsentOrShorter(userData.password, 8)

DefaultConfiguration(c) ==
    c.cls = "Configurable" => inp.cfgArg \in {<<>>, << <<>> >>}

\* C2: createUser of UserManagerWET, UserManagerDRY, ConcreteUserManager and of a
\* ConfigurableUserManager with the default configuration, given a well-formed
\* userData, does not throw and returns a user record.
C2_WellFormedCreateReturns ==
    (IsManagerCall /\ Call.op = "createUser" /\ WellFormed(Call.userData)
       /\ DefaultConfiguration(Call))
    => (~Out.threw /\ Out.ret # <<>> /\ IsUserRecord(Out.ret[1]))

C2_Witness ==
    /\ IsManagerCall /\ Call.op = "createUser" /\ WellFormed(Call.userData)
    /\ Call.cls = "Configurable" /\ Call.lang = "ts" /\ inp.cfgArg = <<>>
    /\ Len(Call.userData.name) = 2 /\ Len(Call.userData.password) = 8
    /\ ~Out.threw /\ IsUserRecord(Out.ret[1])

\* C3 as claimed: in every manager createUser throws "Invalid email" for an e-mail
\* that is absent or shorter than the minimum, and "Password too short" for a valid
\* e-mail and name with a password that is absent or shorter than the minimum.
C3_Original ==
    (IsManagerCall /\ Call.op = "createUser")
    => /\ AbsentOrShorter(Call.userData.email, EmailMin(Call))
            => (Out.threw /\ Out.error = "Invalid email" /\ Out.ret = <<>>)
       /\ (ValidEmail(Call) /\ ValidName(Call)
             /\ AbsentOrShorter(Call.userData.password, PasswordMin(Call)))
            => (Out.threw /\ Out.error = "Password too short" /\ Out.ret = <<>>)

\* C3 amended: as claimed, except that ConfigurableUserManager names the field in
\* its message and throws "Invalid password" where the others throw
\* "Password too short".
C3_CreateUserRejects ==
    (IsManagerCall /\ Call.op = "createUser")
    => /\ AbsentOrShorter(Call.userData.email, EmailMin(Call))
            => (Out.threw /\ Out.error = "Invalid email" /\ Out.ret = <<>>)
       /\ (ValidEmail(Call) /\ ValidName(Call)
             /\ AbsentOrShorter(Call.userData.password, PasswordMin(Call)))
            => /\ Out.threw /\ Out.ret = <<>>
               /\ Out.error = IF Call.cls = "Configurable"
                              THEN "Invalid password"
                              ELSE "Password too short"

C3_Witness ==
    /\ IsManagerCall /\ Call.op = "createUser"
    /\ Call.cls = "Configurable"
    /\ ValidEmail(Call) /\ ValidName(Call)
    /\ Call.userData.password = Undefined
    /\ Out.threw /\ Out.error = "Invalid password"

WetOutcome(c) ==
    IF c.op = "createUser"
    THEN UserManagerWET_createUser(c.userData, c.env)
    ELSE UserManagerWET_updateUser(c.userId, c.userData, c.env)

\* both throw the same message, or both return records with the same fields, the
\* same id (when one was supplied), email, name and password, and log the same
SameOutcome(a, b, idSupplied) ==
    \/ a.threw /\ b.threw /\ a.error = b.error
    \/ /\ ~a.threw /\ ~b.threw
       /\ DOMAIN a.ret[1] = DOMAIN b.ret[1]
       /\ idSupplied => a.ret[1].id = b.ret[1].id
       /\ a.ret[1].email = b.ret[1].email
       /\ a.ret[1].name = b.ret[1].name
       /\ a.ret[1].password = b.ret[1].password
       /\ a.lines = b.lines

\* C5 as claimed: in each example UserManagerDRY.createUser and updateUser have, on
\* every userData and userId, the outcome of UserManagerWET's on the same input.
C5_DryHasWetOutcome ==
    (IsCalled /\ Call.cls = "DRY")
    => SameOutcome(Out, WetOutcome(Call), Call.op = "updateUser")

\* C6: in UserManagerDRY and ConfigurableUserManager, with a valid email and name,
\* updateUser succeeds when the password is absent or empty and throws when a
\* non-empty password is shorter than the minimum; createUser throws when the
\* password is absent, empty or shorter than the minimum.
C6_PasswordRequiredOnCreateOnly ==
    (IsManagerCall /\ Call.cls \in {"DRY", "Configurable"}
       /\ ValidEmail(Call) /\ ValidName(Call))
    => LET password == Call.userData.password IN
       /\ (Call.op = "updateUser" /\ (password = Undefined \/ password = <<>>))
            => (~Out.threw /\ Out.ret # <<>>)
       /\ (Call.op = "updateUser" /\ password # Undefined /\ password # <<>>
             /\ Len(password) < PasswordMin(Call))
            => Out.threw
       /\ (Call.op = "createUser" /\ AbsentOrShorter(password, PasswordMin(Call)))
            => Out.threw

C6_Witness ==
    /\ IsManagerCall /\ Call.cls = "DRY" /\ Call.lang = "ts"
    /\ Call.op = "updateUser" /\ Call.userId = <<>>
    /\ ValidEmail(Call) /\ ValidName(Call)
    /\ Call.userData.password = Undefined
    /\ ~Out.threw

ValidPassword(c) ==
    IF c.op = "createUser"
    THEN ~AbsentOrShorter(c.userData.password, PasswordMin(c))
    ELSE \/ c.userData.password \in {Undefined, <<>>}
         \/ Len(c.userData.password) >= PasswordMin(c)

\* C7 as claimed: for every userId string, the empty one included, and every valid
\* userData, updateUser of UserManagerDRY, ConfigurableUserManager and
\* ConcreteUserManager returns a record with the supplied id, with updatedAt and
\* without createdAt; createUser returns a generated id, createdAt and updatedAt.
C7_UpdateKeepsTheId ==
    (IsManagerCall /\ Call.cls \in {"DRY", "Configurable", "Concrete"}
       /\ ValidEmail(Call) /\ ValidName(Call) /\ ValidPassword(Call))
    => /\ ~Out.threw
       /\ Call.op = "updateUser"
            => /\ Out.ret[1].id = Call.userId
               /\ "updatedAt" \in DOMAIN Out.ret[1]
               /\ "createdAt" \notin DOMAIN Out.ret[1]
       /\ Call.op = "createUser"
            => /\ Out.ret[1].id \in GenIds
               /\ {"createdAt", "updatedAt"} \subseteq DOMAIN Out.ret[1]

\* what each manager takes for an invalid field
UsesPattern(c) == c.lang = "ts" /\ c.cls # "WET"

EmailBad(c) ==
    \/ AbsentOrShorter(c.userData.email, EmailMin(c))
    \/ UsesPattern(c) /\ ~EmailPatternTest(c.userData.email)

NameBad(c) == AbsentOrShorter(c.userData.name, NameMin(c))

PasswordRequired(c) ==
    IF c.cls = "Concrete" THEN c.userId \in {Undefined, <<>>} ELSE c.op = "createUser"

PasswordBad(c) ==
    IF PasswordRequired(c)
    THEN AbsentOrShorter(c.userData.password, PasswordMin(c))
    ELSE /\ c.userData.password \notin {Undefined, <<>>}
         /\ Len(c.userData.password) < PasswordMin(c)

EmailErrors == {"Invalid email", "Invalid email format"}
PasswordErrors == {"Password too short", "Invalid password"}

\* C9: every manager checks email, then name, then password, and the first check
\* that fails decides the one error of the call: the email error if the email is
\* invalid, else the name error if the name is invalid, else the password error.
C9_FirstFailingCheckDecides ==
    IsManagerCall
    => /\ EmailBad(Call) => (Out.threw /\ Out.error \in EmailErrors)
       /\ (~EmailBad(Call) /\ NameBad(Call))
            => (Out.threw /\ Out.error = "Invalid name")
       /\ (~EmailBad(Call) /\ ~NameBad(Call) /\ PasswordBad(Call))
            => (Out.threw /\ Out.error \in PasswordErrors)
       /\ (~EmailBad(Call) /\ ~NameBad(Call) /\ ~PasswordBad(Call)) => ~Out.threw

C9_Witness ==
    /\ IsManagerCall /\ Call.cls = "Concrete"
    /\ Call.userData.email # Undefined /\ Len(Call.userData.email) = 5
    /\ EmailBad(Call) /\ NameBad(Call) /\ PasswordBad(Call)
    /\ Out.threw /\ Out.error = "Invalid email format"

\* the value the constructor's argument gives a key, or the default
Expected(cfgArg, section, key, default) ==
    IF cfgArg # <<>> /\ Has(cfgArg[1], section) /\ Has(Get(cfgArg[1], section), key)
    THEN Get(Get(cfgArg[1], section), key)
    ELSE default

ExpectedBad(c) ==
    LET eMin == Expected(inp.cfgArg, "validation", "emailMinLength", 5)
        nMin == Expected(inp.cfgArg, "validation", "nameMinLength", 2)
        pMin == Expected(inp.cfgArg, "validation", "passwordMinLength", 8)
    IN \/ AbsentOrShorter(c.userData.email, eMin)
       \/ c.lang = "ts" /\ ~EmailPatternTest(c.userData.email)
       \/ AbsentOrShorter(c.userData.name, nMin)
       \/ IF c.op = "createUser"
          THEN AbsentOrShorter(c.userData.password, pMin)
          ELSE /\ c.userData.password \notin {Undefined, <<>>}
               /\ Len(c.userData.password) < pMin

\* C10: the constructor of ConfigurableUserManager takes each validation and
\* logging key from its argument when the argument gives it and from the defaults
\* (5, 2, 8, logging enabled) otherwise, and createUser and updateUser enforce and
\* log by the merged values.
C10_ConstructorMergesByKey ==
    heap # <<>>
    => /\ LET validation == Get(heap[1].config, "validation")
              logging == Get(heap[1].config, "logging")
          IN /\ Get(validation, "emailMinLength")
                  = Expected(inp.cfgArg, "validation", "emailMinLength", 5)
             /\ Get(validation, "nameMinLength")
                  = Expected(inp.cfgArg, "validation", "nameMinLength", 2)
             /\ Get(validation, "passwordMinLength")
                  = Expected(inp.cfgArg, "validation", "passwordMinLength", 8)
             /\ Get(logging, "enabled")
                  = Expected(inp.cfgArg, "logging", "enabled", TRUE)
       /\ IsCalled
            => /\ Out.threw <=> ExpectedBad(Call)
               /\ ~Out.threw
                    => (Out.lines # <<>>
                          <=> Expected(inp.cfgArg, "logging", "enabled", TRUE))

C10_Witness ==
    /\ IsCalled /\ Call.cls = "Configurable" /\ Call.op = "createUser"
    /\ inp.cfgArg = << Validation(<< <<"passwordMinLength", 12>> >>) >>
    /\ Call.userData.email # Undefined /\ Len(Call.userData.email) = 6
    /\ EmailPatternTest(Call.userData.email)
    /\ Call.userData.name # Undefined /\ Len(Call.userData.name) = 2
    /\ Call.userData.password # Undefined /\ Len(Call.userData.password) = 11
    /\ Out.threw /\ Out.error = "Invalid password"

\* the outcome of call c as the first call of the program, on a receiver of the
\* same configuration
FirstOutcome(c) ==
    CASE c.cls = "WET" -> WetOutcome(c)
      [] c.cls = "DRY" /\ c.op = "createUser" ->
            UserManagerDRY_createUser(c.lang, TRUE, c.userData, c.env)
      [] c.cls = "DRY" /\ c.op = "updateUser" ->
            UserManagerDRY_updateUser(c.lang, TRUE, c.userId, c.userData, c.env)
      [] c.cls = "Concrete" /\ c.op = "createUser" ->
            ConcreteUserManager_createUser(c.userData, c.env)
      [] c.cls = "Concrete" /\ c.op = "updateUser" ->
            ConcreteUserManager_updateUser(c.userId, c.userData, c.env)
      [] c.cls = "Configurable" /\ c.op = "createUser" ->
            ConfigurableUserManager_createUser(heap[c.recv], c.userData, c.env)
      [] c.cls = "Configurable" /\ c.op = "updateUser" ->
            ConfigurableUserManager_updateUser(heap[c.recv], c.userId, c.userData, c.env)
      [] c.cls = "UserLogger" ->
            Return(Undefined, <<CreatedLine(c.arg[1])>>)

ReadsTheFlag(c) == c.lang = "ts" /\ c.cls \in {"DRY", "UserLogger"}

C8_NoEffectBeforeValidation ==
    [][(CallStep /\ last'[1].cls \in {"WET", "DRY", "Configurable", "Concrete"}
          /\ last'[1].out.threw)
       => /\ last'[1].out.lines = <<>>
          /\ last'[1].out.ret = <<>>
          /\ instances' = instances
          /\ isEnabled' = isEnabled
          /\ heap' = heap]_vars

C8_Witness ==
    /\ IsCalled /\ Call.cls = "Concrete" /\ Call.op = "updateUser"
    /\ Out.threw /\ Out.error = "Password too short"
    /\ Out.lines = <<>> /\ Out.ret = <<>>
    /\ Len(instances) = 2 /\ ~isEnabled

\* C11: among the createManager calls made so far, two with the same type and
\* the same customConfig returned the identical manager, two whose type differs
\* returned distinct managers, and no step replaces or removes an entry of the
\* factory's cache.
C11_CreateManagerMemoizes ==
    [][/\ \A c1 \in made', c2 \in made' :
            (c1[1] = c2[1] /\ c1[2] = c2[2]) => c1[3] = c2[3]
       /\ \A c1 \in made', c2 \in made' :
            c1[1] # c2[1] => c1[3] # c2[3]
       /\ \A i \in 1..Len(instances) :
            /\ Has(instances', instances[i][1])
            /\ Get(instances', instances[i][1]) = instances[i][2]]_vars

\* a repeated call with a non-empty customConfig has returned the first manager
\* again after a call of another type constructed the second
C11_Witness ==
    /\ IsCalled /\ Call.cls = "Factory"
    /\ Call.arg[2] # <<>> /\ Call.arg[2][1] # <<>>
    /\ ~Out.ret[1].constructed /\ Out.ret[1].manager = 1
    /\ <<Call.arg[1], Call.arg[2], 1>> \in made
    /\ \E c \in made : c[1] # Call.arg[1] /\ c[2] = Call.arg[2] /\ c[3] = 2

\* the positions of the rules of a validator that return false for a value
Failing(this, value) ==
    {i \in 1..Len(this.rules) : ~RuleHolds(this.rules[i], value)}

FirstFailing(this, value) ==
    CHOOSE i \in Failing(this, value) : \A j \in Failing(this, value) : i <= j

\* C12: validate(value) throws exactly when some added rule returns false for the
\* value, and then with the validator's errorMessage; it has called the rules in
\* the order they were added, up to and including the first failing one (all of
\* them when none fails); with no rules it does not throw; it changes no
\* validator.  addRule(rule) appends the rule to the receiver's rules, keeps the
\* earlier ones, the message and the other validators, and returns the receiver.
C12_ValidatorRunsRulesInOrder ==
    [][(CallStep /\ last'[1].cls = "GenericValidator")
       => LET c == last'[1]
              this == validators[c.recv]
          IN IF c.op = "validate"
             THEN LET failing == Failing(this, c.arg[1]) IN
                  /\ c.out.threw <=> failing # {}
                  /\ c.out.threw => c.out.error = this.errorMessage
                  /\ c.evaluated =
                        SubSeq(this.rules, 1,
                               IF failing = {} THEN Len(this.rules)
                               ELSE FirstFailing(this, c.arg[1]))
                  /\ this.rules = <<>> => ~c.out.threw
                  /\ validators' = validators
             ELSE /\ validators'[c.recv].rules = Append(this.rules, c.arg[1])
                  /\ validators'[c.recv].errorMessage = this.errorMessage
                  /\ \A w \in 1..Len(validators) :
                        w # c.recv => validators'[w] = validators[w]
                  /\ Len(validators') = Len(validators)
                  /\ ~c.out.threw /\ c.out.ret = <<c.recv>>]_vars

\* the second validator, holding three rules added one by one, has thrown its own
\* message at the second rule and left the third uncalled
C12_Witness ==
    /\ IsCalled /\ Call.cls = "GenericValidator" /\ Call.op = "validate"
    /\ Call.recv = 2
    /\ validators[2].rules = <<"nonEmpty", "isA", "short">>
    /\ validators[1].rules # <<>>
    /\ Call.arg[1] = <<"a", "a", "a">>
    /\ Out.threw /\ Out.error = "Invalid name"
    /\ Call.evaluated = <<"nonEmpty", "isA">>

====
